---- MODULE Spec2Model ----
(***************************************************************************)
(* Order lifecycle and payment reconciliation of the canteen bot           *)
(* (src/app.py, src/db_manager.py).                                        *)
(*                                                                         *)
(* State: the three SQLite tables (menu, orders, users) with the orders    *)
(* AUTOINCREMENT counter, the payment links that exist at the gateway, the *)
(* latest reply of confirm_pay, the payment threads started by the         *)
(* webhook, the last HTTP answer of the webhook endpoint and the calendar  *)
(* day.  Every Telegram handler is one action; the payment thread started  *)
(* by the webhook runs one database call per step.  The operating-hours    *)
(* test, the gateway's answer, the clock reading and the success of the    *)
(* archive file write are inputs of the step that reads them.              *)
(***************************************************************************)
EXTENDS Integers, Sequences, FiniteSets, TLC

\* ------------------------------------------------------------------ bounds
MaxOrderId == 2      \* order ids the model lets create_order hand out
MaxLines   == 2      \* item lines one cart may hold
MaxLinks   == 2      \* payment links the gateway creates
MaxThreads == 2      \* payment threads the webhook starts
MaxDay     == 2      \* calendar days the run covers
MaxClock   == 1      \* distinct minute-second readings (0..MaxClock)
MaxInflight == 2     \* callback handlers between their reads and writes

\* ------------------------------------------------- program constants
MAX_TYPED_QTY == 100          \* app.py: quantity > 100 is refused
CODE_SHIFT    == 10000        \* f"{order_id}{MMSS}": the id followed by 4 digits
SAMOSA_PRICE  == 15
TEA_PRICE     == 10

NULL      == 0                \* SQL NULL / Python None for ids, links and codes
NoPhone   == ""               \* users.phone_number IS NULL
NoUser    == ""

Customers == {"c1", "c2"}     \* chat ids that are not in ADMIN_CHAT_IDS
ADMIN_CHAT_IDS == {"admin"}
Chats     == Customers \cup ADMIN_CHAT_IDS
OrderIds  == 1..MaxOrderId
ItemIds   == {1, 2}           \* the first two rows of the default menu
ButtonQuantities == {1, 2}    \* quantity buttons (the first of range(1, 6))
UnknownItem == 3              \* an id with no row in the menu table
CallbackQuantities == ButtonQuantities \cup {0}   \* int(parts[2]) of qty:<id>:<n>
NewPrices == {20}             \* prices an admin `update <id> <price>` sets
ClockReadings == 0..MaxClock

\* Text messages a chat sends, by what the handler's tests make of them.
Texts == {"cancel order", "menu", "status", "987654", "12ab", "0", "2", "101"}

ParseError == -1
\* int(message.text.strip()); ParseError stands for ValueError
ParseInt(t) ==
    CASE t = "0"      -> 0
      [] t = "2"      -> 2
      [] t = "101"    -> 101
      [] t = "987654" -> 987654
      [] OTHER        -> ParseError

\* the phone prompt taking any text for a phone number
AnyTextIsPhoneNumber(t) == TRUE

\* re.fullmatch(r'^\+?\d{6,15}$', ...)
IsPhoneNumber(t) == t = "987654"

UniversalCommands == {"menu"}
StatusCommands    == {"status"}

\* f'awaiting_typed_quantity_{item_id}'
TypedQuantityState(item) ==
    IF item = 1 THEN "awaiting_typed_quantity_1" ELSE "awaiting_typed_quantity_2"
IsTypedQuantityState(s) == s \in {TypedQuantityState(i) : i \in ItemIds}
\* int(current_state.split('_')[-1])
TypedQuantityItem(s) == IF s = "awaiting_typed_quantity_1" THEN 1 ELSE 2

SessionStates ==
    {"initial", "ordering_item", "awaiting_add_more", "awaiting_service_type",
     "awaiting_phone_number", "confirming_order", "waiting_for_payment",
     "pickup_ready"} \cup {TypedQuantityState(i) : i \in ItemIds}

OrderStatuses == {"pending", "payment_pending", "paid", "delivered", "cancelled"}

\* ------------------------------------------------------------------- state
VARIABLES
    menu,            \* table menu: item id -> [price, available]
    orders,          \* table orders: id -> row, or NoOrder
    seq,             \* sqlite_sequence.seq of table orders
    users,           \* table users: chat id -> row
    links,           \* payment links at the gateway, by link id
    confirmReply,    \* what the latest confirm_pay that reached a link sent
    threads,         \* payment threads started by the webhook
    lastResponse,    \* HTTP status of the webhook's latest answer
    today,           \* the calendar day
    page,            \* the latest answer of the pickup verification page
    inflight,        \* callback handlers between their read and their write
    paidTransitions, \* per order id: status changes into 'paid'
    codeWrites       \* per order id: pickup-code writes that hit a row

vars == <<menu, orders, seq, users, links, confirmReply, threads, lastResponse, today, page, inflight,
          paidTransitions, codeWrites>>

NoOrder ==
    [student_phone |-> NoUser, items |-> <<>>, total_amount |-> 0,
     status |-> "absent", payment_link |-> NULL, pickup_code |-> NULL,
     razorpay_order_id |-> NULL, service_type |-> "", created_at |-> 0]

\* The orders table has no column for a daily token and no handler computes
\* one: what an order carries for pickup is its id and its pickup_code.
daily_token(order) == NULL

\* The database as one value, so that a handler is a composition of calls.
DB == [menu |-> menu, orders |-> orders, seq |-> seq, users |-> users]

\* A handler's writes; the two guards keep the run inside the model's bounds.
Commit(d) ==
    /\ d.seq <= MaxOrderId
    /\ \A i \in OrderIds : Len(d.orders[i].items) <= MaxLines
    /\ menu' = d.menu
    /\ orders' = d.orders
    /\ seq' = d.seq
    /\ users' = d.users

\* ------------------------------------------------------ db_manager: menu
\* get_menu_item without the test of the available flag
get_menu_item_even_removed(d, item) ==
    IF item \in DOMAIN d.menu
    THEN [id |-> item, price |-> d.menu[item].price]
    ELSE [id |-> NULL, price |-> 0]

get_menu_item(d, item) ==
    IF item \in DOMAIN d.menu /\ d.menu[item].available
    THEN [id |-> item, price |-> d.menu[item].price]
    ELSE [id |-> NULL, price |-> 0]

\* update_menu_item carrying the new price into the lines of stored orders
update_menu_item_and_lines(d, item, price) ==
    LET Reprice(line) == IF line.id = item THEN [line EXCEPT !.price = price]
                         ELSE line
        Lines(items) == [k \in DOMAIN items |-> Reprice(items[k])]
    IN  IF item \in DOMAIN d.menu
        THEN [d EXCEPT !.menu[item].price = price,
                       !.orders = [o \in DOMAIN d.orders |->
                                      [d.orders[o] EXCEPT !.items = Lines(@)]]]
        ELSE d

update_menu_item(d, item, price) ==
    IF item \in DOMAIN d.menu
    THEN [d EXCEPT !.menu[item].price = price]
    ELSE d

delete_menu_item(d, item) ==
    IF item \in DOMAIN d.menu
    THEN [d EXCEPT !.menu[item].available = FALSE]
    ELSE d

\* ---------------------------------------------------- db_manager: orders
Exists(d, id) == id \in OrderIds /\ d.orders[id] # NoOrder

get_order_details(d, id) == IF Exists(d, id) THEN d.orders[id] ELSE NoOrder

MaxRowId(d) ==
    LET present == {i \in OrderIds : d.orders[i] # NoOrder}
    IN  IF present = {} THEN 0 ELSE CHOOSE m \in present : \A i \in present : i <= m

\* AUTOINCREMENT: one more than the larger of sqlite_sequence.seq and the
\* largest rowid in the table.
NextOrderId(d) == (IF d.seq > MaxRowId(d) THEN d.seq ELSE MaxRowId(d)) + 1

create_order(d, student_phone, day) ==
    LET id == NextOrderId(d)
    IN  IF id \in OrderIds
        THEN [d EXCEPT !.orders[id] =
                          [NoOrder EXCEPT !.student_phone = student_phone,
                                          !.status = "pending",
                                          !.created_at = day],
                      !.seq = id]
        ELSE [d EXCEPT !.seq = id]

update_order_status(d, id, status) ==
    IF Exists(d, id) THEN [d EXCEPT !.orders[id].status = status] ELSE d

update_razorpay_details(d, id, razorpay_id, payment_link) ==
    IF Exists(d, id)
    THEN [d EXCEPT !.orders[id].razorpay_order_id = razorpay_id,
                   !.orders[id].payment_link = payment_link]
    ELSE d

update_order_cart(d, id, current_items, new_total) ==
    IF Exists(d, id)
    THEN [d EXCEPT !.orders[id].items = current_items,
                   !.orders[id].total_amount = new_total]
    ELSE d

update_order_service_type(d, id, service_type) ==
    IF Exists(d, id) THEN [d EXCEPT !.orders[id].service_type = service_type] ELSE d

update_order_pickup_code(d, id, pickup_code) ==
    IF Exists(d, id) THEN [d EXCEPT !.orders[id].pickup_code = pickup_code] ELSE d

\* ----------------------------------------------------- db_manager: users
update_user_phone(d, c, phone_number) ==
    [d EXCEPT !.users[c].phone_number = phone_number]

\* get_user_phone answering with a number for every customer
get_user_phone_always_stored(d, c) == "987654"

get_user_phone(d, c) == d.users[c].phone_number

get_session_state(d, c) == d.users[c].session_state

set_session_state(d, c, state, order_id) ==
    [d EXCEPT !.users[c].session_state = state,
              !.users[c].current_order_id = order_id]

get_session_order_id(d, c) == d.users[c].current_order_id

\* ------------------------------------------------------ app.py: the flow
start_menu_flow(d, c, day) ==
    LET cur == get_session_order_id(d, c)
        det == get_order_details(d, cur)
        keep == IF cur # NULL /\ det # NoOrder /\ det.status # "pending"
                THEN NULL ELSE cur
    IN  IF keep = NULL
        THEN set_session_state(create_order(d, c, day), c, "ordering_item",
                               NextOrderId(d))
        ELSE set_session_state(d, c, "ordering_item", keep)

\* add_item_to_cart_and_prompt adding the unit price, not price * quantity
add_item_forgetting_quantity(d, c, item_id, quantity, day) ==
    LET cur  == get_session_order_id(d, c)
        item == get_menu_item(d, item_id)
    IN  IF item.id = NULL \/ cur = NULL \/ quantity <= 0
        THEN start_menu_flow(d, c, day)
        ELSE LET det   == get_order_details(d, cur)
                 line  == [id |-> item.id, price |-> item.price, qty |-> quantity]
                 new_total == det.total_amount + item.price
             IN  set_session_state(
                     update_order_cart(d, cur, Append(det.items, line), new_total),
                     c, "awaiting_add_more", cur)

add_item_to_cart_and_prompt(d, c, item_id, quantity, day) ==
    LET cur  == get_session_order_id(d, c)
        item == get_menu_item(d, item_id)
    IN  IF item.id = NULL \/ cur = NULL \/ quantity <= 0
        THEN start_menu_flow(d, c, day)
        ELSE LET det   == get_order_details(d, cur)
                 line  == [id |-> item.id, price |-> item.price, qty |-> quantity]
                 new_total == det.total_amount + item.price * quantity
             IN  set_session_state(
                     update_order_cart(d, cur, Append(det.items, line), new_total),
                     c, "awaiting_add_more", cur)

\* handle_incoming_message for a chat that is not an admin, once the
\* operating-hours test has passed.
handle_incoming_message(d, c, t, day) ==
    LET current_state == get_session_state(d, c)
        cur == get_session_order_id(d, c)
    IN  IF current_state = "awaiting_phone_number"
        THEN IF t = "cancel order"
             THEN set_session_state(update_order_status(d, cur, "cancelled"),
                                    c, "initial", NULL)
             ELSE IF ~IsPhoneNumber(t)
             THEN d
             ELSE set_session_state(update_user_phone(d, c, t),
                                    c, "confirming_order", cur)
        ELSE IF IsTypedQuantityState(current_state)
        THEN LET quantity == ParseInt(t)
                 item_id  == TypedQuantityItem(current_state)
             IN  IF quantity = ParseError
                 THEN set_session_state(d, c, "awaiting_add_more", cur)
                 ELSE IF quantity <= 0 \/ quantity > MAX_TYPED_QTY
                 THEN d
                 ELSE LET d1 == add_item_to_cart_and_prompt(d, c, item_id,
                                                           quantity, day)
                      IN  set_session_state(d1, c, "awaiting_add_more",
                                            get_session_order_id(d1, c))
        ELSE IF t \in UniversalCommands
        THEN IF current_state = "awaiting_phone_number"
             THEN set_session_state(d, c, "initial", NULL)
             ELSE start_menu_flow(d, c, day)
        ELSE d

\* cancel_order resetting the session without touching the order
cancel_order_keeping_status(d, c) == set_session_state(d, c, "initial", NULL)

\* callback 'cancel_order'
cancel_order(d, c) ==
    LET cur == get_session_order_id(d, c)
        d1  == IF cur # NULL THEN update_order_status(d, cur, "cancelled") ELSE d
    IN  set_session_state(d1, c, "initial", NULL)

\* callback 'item:<item_id>'
select_item(d, c, item_id, day) ==
    IF get_menu_item(d, item_id).id = NULL \/ get_session_order_id(d, c) = NULL
    THEN start_menu_flow(d, c, day)
    ELSE d

\* callback 'type_qty:<item_id>'
type_qty(d, c, item_id) ==
    set_session_state(d, c, TypedQuantityState(item_id), get_session_order_id(d, c))

\* callback 'checkout'
checkout(d, c, day) ==
    LET cur == get_session_order_id(d, c)
    IN  IF cur = NULL \/ get_order_details(d, cur) = NoOrder
        THEN start_menu_flow(d, c, day)
        ELSE set_session_state(d, c, "awaiting_service_type", cur)

\* callback 'service:<type>' asking for the phone number in every order
choose_service_asking_phone_again(d, c, service_type, day) ==
    LET cur == get_session_order_id(d, c)
    IN  IF cur = NULL \/ get_order_details(d, cur) = NoOrder
        THEN start_menu_flow(d, c, day)
        ELSE set_session_state(update_order_service_type(d, cur, service_type),
                               c, "awaiting_phone_number", cur)

\* callback 'service:<type>'
choose_service(d, c, service_type, day) ==
    LET cur == get_session_order_id(d, c)
    IN  IF cur = NULL \/ get_order_details(d, cur) = NoOrder
        THEN start_menu_flow(d, c, day)
        ELSE LET d1 == update_order_service_type(d, cur, service_type)
             IN  IF get_user_phone(d1, c) = NoPhone
                 THEN set_session_state(d1, c, "awaiting_phone_number", cur)
                 ELSE set_session_state(d1, c, "confirming_order", cur)

\* callback 'delivered:<order_id>'
mark_delivered(d, order_id) == update_order_status(d, order_id, "delivered")

\* the operating-hours gate letting every event through
RefusedNever(chat, available) == FALSE

\* is_bot_available_now() gates every event of a chat that is no admin; its
\* result is an input of the event.  (As written, app.py 97 calls the module
\* `time` imported at line 13; the TypeError is caught at 102-104 and the
\* function answers False at every hour.  FALSE is one of the inputs.)
Refused(chat, available) == chat \notin ADMIN_CHAT_IDS /\ ~available

Quiet == UNCHANGED <<links, confirmReply, threads, lastResponse, today, page, inflight, paidTransitions, codeWrites>>

\* ------------------------------------------------------ Telegram events
Message(c, t, available) ==
    /\ Commit(IF Refused(c, available) THEN DB
              ELSE handle_incoming_message(DB, c, t, today))
    /\ Quiet

TapMenuStart(c, available) ==
    /\ Commit(IF Refused(c, available) THEN DB ELSE start_menu_flow(DB, c, today))
    /\ Quiet

TapCancelOrder(c, available) ==
    /\ Commit(IF Refused(c, available) THEN DB ELSE cancel_order(DB, c))
    /\ Quiet

TapItem(c, item_id, available) ==
    /\ Commit(IF Refused(c, available) THEN DB ELSE select_item(DB, c, item_id, today))
    /\ Quiet

TapQuantity(c, item_id, quantity, available) ==
    /\ Commit(IF Refused(c, available) THEN DB
              ELSE add_item_to_cart_and_prompt(DB, c, item_id, quantity, today))
    /\ Quiet

TapTypeQuantity(c, item_id, available) ==
    /\ Commit(IF Refused(c, available) THEN DB ELSE type_qty(DB, c, item_id))
    /\ Quiet

TapCheckout(c, available) ==
    /\ Commit(IF Refused(c, available) THEN DB ELSE checkout(DB, c, today))
    /\ Quiet

TapService(c, service_type, available) ==
    /\ Commit(IF Refused(c, available) THEN DB
              ELSE choose_service(DB, c, service_type, today))
    /\ Quiet

TapDelivered(chat, order_id, available) ==
    /\ Commit(IF Refused(chat, available) THEN DB ELSE mark_delivered(DB, order_id))
    /\ Quiet

\* admin text commands `update <id> <price>` and `delete <id>`
AdminUpdatePrice(item_id, price) ==
    /\ Commit(update_menu_item(DB, item_id, price))
    /\ Quiet

AdminDeleteItem(item_id) ==
    /\ Commit(delete_menu_item(DB, item_id))
    /\ Quiet

\* ------------------------------------------ callback 'confirm_pay'
GatewayOutcomes == {"created", "bad_request", "failed"}

\* generate_razorpay_payment_link: the link the gateway creates, with the
\* notes and amount sent; its id and short URL are both the link's number.
NewLink(order_id, amount, c) ==
    [order |-> order_id, chat |-> c, amount |-> amount]

\* The part of confirm_pay that follows a link in hand (app.py 1931-1974):
\* store_link_and_wait.  First, the variant that hands the order over for
\* pickup as soon as the link is sent.
store_link_and_release(d, c, cur, order, razorpay_order_id, payment_link) ==
    LET d1 == IF order.razorpay_order_id = NULL
              THEN update_razorpay_details(d, cur, razorpay_order_id, payment_link)
              ELSE d
        d2 == update_order_status(d1, cur, "payment_pending")
    IN  set_session_state(d2, c, "pickup_ready", cur)

store_link_and_wait(d, c, cur, order, razorpay_order_id, payment_link) ==
    LET d1 == IF order.razorpay_order_id = NULL
              THEN update_razorpay_details(d, cur, razorpay_order_id, payment_link)
              ELSE d
        d2 == update_order_status(d1, cur, "payment_pending")
    IN  set_session_state(d2, c, "waiting_for_payment", cur)

\* the reuse test of confirm_pay never finding a stored link
HasLinkNever(order) == FALSE

HasLink(order) == order.razorpay_order_id # NULL /\ order.payment_link # NULL

\* What confirm_pay sends: the payment link in its message (NULL: an error
\* message), and whether generate_razorpay_payment_link was called for it.
\* confirm_pay treating a failed link creation like a created link
wait_after_link_failure(d, c) ==
    LET cur == get_session_order_id(d, c)
    IN  set_session_state(update_order_status(d, cur, "payment_pending"),
                          c, "waiting_for_payment", cur)

\* confirm_pay without a link: BadRequestError, or (None, None) returned
reset_after_link_failure(d, c) == set_session_state(d, c, "initial", NULL)

NoReply == [link |-> NULL, gateway |-> FALSE]

TapConfirmPay(c, outcome, available) ==
    LET d     == DB
        cur   == get_session_order_id(d, c)
        order == get_order_details(d, cur)
    IN  /\ UNCHANGED <<threads, lastResponse, today, page, inflight, paidTransitions, codeWrites>>
        /\ IF Refused(c, available)
           THEN Commit(d) /\ UNCHANGED <<links, confirmReply>>
           ELSE IF order = NoOrder
           THEN Commit(start_menu_flow(d, c, today)) /\ UNCHANGED <<links, confirmReply>>
           ELSE IF get_user_phone(d, c) = NoPhone
           THEN /\ Commit(set_session_state(d, c, "awaiting_phone_number", cur))
                /\ UNCHANGED <<links, confirmReply>>
           ELSE IF HasLink(order)
           THEN /\ Commit(store_link_and_wait(d, c, cur, order,
                                              order.razorpay_order_id,
                                              order.payment_link))
                /\ confirmReply' = [link |-> order.payment_link, gateway |-> FALSE]
                /\ UNCHANGED links
           ELSE IF outcome = "created"
           THEN /\ Len(links) < MaxLinks
                /\ links' = Append(links, NewLink(cur, order.total_amount, c))
                /\ Commit(store_link_and_wait(d, c, cur, order,
                                              Len(links) + 1, Len(links) + 1))
                /\ confirmReply' = [link |-> Len(links) + 1, gateway |-> TRUE]
           ELSE /\ Commit(reset_after_link_failure(d, c))
                /\ confirmReply' = [link |-> NULL, gateway |-> TRUE]
                /\ UNCHANGED links

\* ------------------------------------- callback handlers run concurrently
\* telebot.TeleBot(TOKEN) dispatches handlers to worker threads, so a second
\* callback can be handled between another handler's reads and its writes.
\* A handler that has read is in flight with what it read.
NoLine == [id |-> NULL, price |-> 0, qty |-> 0]

Without(s, k) == [j \in 1..(Len(s) - 1) |-> IF j < k THEN s[j] ELSE s[j + 1]]

\* confirm_pay up to its reads (app.py 1879-1894).  The branches that return
\* before the gateway is asked are one step.
ConfirmPayRead(c, available) ==
    LET cur   == get_session_order_id(DB, c)
        order == get_order_details(DB, cur)
    IN  IF Refused(c, available) \/ order = NoOrder \/ get_user_phone(DB, c) = NoPhone
        THEN TapConfirmPay(c, "created", available)
        ELSE /\ Len(inflight) < MaxInflight
             /\ inflight' = Append(inflight, [handler |-> "confirm_pay", chat |-> c,
                                              cur |-> cur, order |-> order,
                                              line |-> NoLine])
             /\ UNCHANGED <<menu, orders, seq, users, links, confirmReply, threads,
                            lastResponse, today, page, paidTransitions, codeWrites>>

\* confirm_pay from the reuse test on (app.py 1896-1974), with the order as
\* it was read.
ConfirmPayWrite(k, outcome) ==
    /\ k \in DOMAIN inflight
    /\ inflight[k].handler = "confirm_pay"
    /\ LET c     == inflight[k].chat
           cur   == inflight[k].cur
           order == inflight[k].order
       IN  IF HasLink(order)
           THEN /\ Commit(store_link_and_wait(DB, c, cur, order,
                                              order.razorpay_order_id,
                                              order.payment_link))
                /\ confirmReply' = [link |-> order.payment_link, gateway |-> FALSE]
                /\ UNCHANGED links
           ELSE IF outcome = "created"
           THEN /\ Len(links) < MaxLinks
                /\ links' = Append(links, NewLink(cur, order.total_amount, c))
                /\ Commit(store_link_and_wait(DB, c, cur, order,
                                              Len(links) + 1, Len(links) + 1))
                /\ confirmReply' = [link |-> Len(links) + 1, gateway |-> TRUE]
           ELSE /\ Commit(reset_after_link_failure(DB, c))
                /\ confirmReply' = [link |-> NULL, gateway |-> TRUE]
                /\ UNCHANGED links
    /\ inflight' = Without(inflight, k)
    /\ UNCHANGED <<threads, lastResponse, today, page, paidTransitions, codeWrites>>

\* add_item_to_cart_and_prompt up to its reads (app.py 781-795).  The
\* rejected add is one step.
AddItemRead(c, item_id, quantity, available) ==
    LET cur  == get_session_order_id(DB, c)
        item == get_menu_item(DB, item_id)
    IN  IF Refused(c, available) \/ item.id = NULL \/ cur = NULL \/ quantity <= 0
        THEN TapQuantity(c, item_id, quantity, available)
        ELSE /\ Len(inflight) < MaxInflight
             /\ inflight' = Append(inflight, [handler |-> "add_item", chat |-> c,
                                              cur |-> cur,
                                              order |-> get_order_details(DB, cur),
                                              line |-> [id |-> item.id, price |-> item.price,
                                                        qty |-> quantity]])
             /\ UNCHANGED <<menu, orders, seq, users, links, confirmReply, threads,
                            lastResponse, today, page, paidTransitions, codeWrites>>

\* add_item_to_cart_and_prompt from its writes on (app.py 797-804): the cart
\* that was read plus the new line.
AddItemWrite(k) ==
    /\ k \in DOMAIN inflight
    /\ inflight[k].handler = "add_item"
    /\ LET h == inflight[k]
           new_total == h.order.total_amount + h.line.price * h.line.qty
       IN  Commit(set_session_state(
                     update_order_cart(DB, h.cur, Append(h.order.items, h.line), new_total),
                     h.chat, "awaiting_add_more", h.cur))
    /\ inflight' = Without(inflight, k)
    /\ UNCHANGED <<links, confirmReply, threads, lastResponse, today, page,
                   paidTransitions, codeWrites>>

\* The phone number typed in awaiting_phone_number (app.py 1242-1269), with
\* update_user_phone (db_manager.py 877-907) in its two statements: the
\* SELECT of the stored state and order, then INSERT OR REPLACE of the whole
\* row; the handler then sets confirming_order.  Every other message is one
\* step.
StorePhoneSelect(c, t, available) ==
    IF \/ Refused(c, available)
       \/ get_session_state(DB, c) # "awaiting_phone_number"
       \/ t = "cancel order"
       \/ ~IsPhoneNumber(t)
    THEN Message(c, t, available)
    ELSE /\ Len(inflight) < MaxInflight
         /\ inflight' = Append(inflight,
                [handler |-> "update_user_phone", chat |-> c,
                 cur |-> get_session_order_id(DB, c),
                 phone_number |-> t,
                 state |-> get_session_state(DB, c),
                 order_id |-> get_session_order_id(DB, c),
                 replaced |-> FALSE])
         /\ UNCHANGED <<menu, orders, seq, users, links, confirmReply, threads,
                        lastResponse, today, page, paidTransitions, codeWrites>>

StorePhoneReplace(k) ==
    /\ k \in DOMAIN inflight
    /\ inflight[k].handler = "update_user_phone"
    /\ ~inflight[k].replaced
    /\ LET h == inflight[k]
       IN  Commit([DB EXCEPT !.users[h.chat] =
                      [phone_number |-> h.phone_number,
                       session_state |-> h.state,
                       current_order_id |-> h.order_id]])
    /\ inflight' = [inflight EXCEPT ![k].replaced = TRUE]
    /\ UNCHANGED <<links, confirmReply, threads, lastResponse, today, page,
                   paidTransitions, codeWrites>>

StorePhoneResume(k) ==
    /\ k \in DOMAIN inflight
    /\ inflight[k].handler = "update_user_phone"
    /\ inflight[k].replaced
    /\ Commit(set_session_state(DB, inflight[k].chat, "confirming_order",
                                inflight[k].cur))
    /\ inflight' = Without(inflight, k)
    /\ UNCHANGED <<links, confirmReply, threads, lastResponse, today, page,
                   paidTransitions, codeWrites>>

\* ------------------------------------------------ /razorpay/webhook
EventTypes == {"payment.captured", "payment.failed", "unparsable"}
NotesKinds == {"ok", "missing", "malformed"}

\* What the webhook answers, and whether it starts a payment thread.
\* signed: verify_webhook_signature accepts; event: event['event'] (or the
\* body is no JSON event); link: the link the payment's gateway order belongs
\* to (NULL: order.fetch fails); notes: what that order's notes hold.
WebhookStatus(signed, event, link, notes) ==
    IF ~signed THEN 400
    ELSE IF event = "unparsable" THEN 500
    ELSE IF event # "payment.captured" THEN 200
    ELSE IF link = NULL \/ notes # "ok" THEN 500
    ELSE 200

\* the webhook going on to the event without the signature check
StartsThreadUnverified(signed, event, link, notes) ==
    event = "payment.captured" /\ link # NULL /\ notes = "ok"

\* the webhook handling every event type as a captured payment
StartsThreadOnAnyEvent(signed, event, link, notes) ==
    signed /\ event # "unparsable" /\ link # NULL /\ notes = "ok"

WebhookStartsThread(signed, event, link, notes) ==
    signed /\ event = "payment.captured" /\ link # NULL /\ notes = "ok"

razorpay_webhook(signed, event, link, notes) ==
    /\ link \in 0..Len(links)
    /\ lastResponse' = WebhookStatus(signed, event, link, notes)
    /\ IF WebhookStartsThread(signed, event, link, notes)
       THEN /\ Len(threads) < MaxThreads
            /\ threads' = Append(threads,
                   [pc |-> "read",
                    order |-> links[link].order,
                    student |-> links[link].chat,
                    link |-> link,
                    found |-> get_order_details(DB, links[link].order).status,
                    service |-> "",
                    ack |-> WebhookStatus(signed, event, link, notes)])
       ELSE UNCHANGED threads
    /\ UNCHANGED <<menu, orders, seq, users, links, confirmReply, today, page, inflight,
                 paidTransitions, codeWrites>>

\* ------------------------------- handle_successful_payment, step by step
ThreadIds == 1..Len(threads)

Bump(counter, id, hit) ==
    IF hit /\ id \in DOMAIN counter
    THEN [counter EXCEPT ![id] = @ + 1] ELSE counter

\* order_details = get_order_details(...); if not order_details: return
PayRead(i) ==
    /\ threads[i].pc = "read"
    /\ threads' = [threads EXCEPT
                      ![i].pc = IF Exists(DB, threads[i].order) THEN "paid" ELSE "done",
                      ![i].service = get_order_details(DB, threads[i].order).service_type]
    /\ UNCHANGED <<menu, orders, seq, users, links, confirmReply, lastResponse, today, page, inflight,
                   paidTransitions, codeWrites>>

\* db_manager.update_order_status(internal_order_id, 'paid')
mark_paid(d, order_id) == update_order_status(d, order_id, "paid")

PayMarkPaid(i) ==
    LET o == threads[i].order
    IN  /\ threads[i].pc = "paid"
        /\ Commit(mark_paid(DB, o))
        /\ paidTransitions' =
               Bump(paidTransitions, o,
                    get_order_details(DB, o).status # "paid"
                    /\ get_order_details(mark_paid(DB, o), o).status = "paid")
        /\ threads' = [threads EXCEPT ![i].pc = "code"]
        /\ UNCHANGED <<links, confirmReply, lastResponse, today, page, inflight, codeWrites>>

\* generate_pickup_qr_code: f"{order_id}{MMSS}", or None when it fails
verification_code(order_id, mmss, generated) ==
    IF generated THEN order_id * CODE_SHIFT + mmss ELSE NULL

\* update_order_pickup_code, then the message text: escape_markdown(None)
\* raises and ends the thread, and so does service_type.title() when the
\* order that was read has no service type.
PayWriteCode(i, mmss, generated) ==
    LET o == threads[i].order
        code == verification_code(o, mmss, generated)
    IN  /\ threads[i].pc = "code"
        /\ Commit(update_order_pickup_code(DB, o, code))
        /\ codeWrites' = Bump(codeWrites, o, Exists(DB, o))
        /\ threads' = [threads EXCEPT ![i].pc =
                          IF code = NULL \/ threads[i].service = ""
                          THEN "crashed" ELSE "session"]
        /\ UNCHANGED <<links, confirmReply, lastResponse, today, page, inflight, paidTransitions>>

\* db_manager.set_session_state(student_db_id, 'pickup_ready', internal_order_id)
PaySetSession(i) ==
    /\ threads[i].pc = "session"
    /\ Commit(set_session_state(DB, threads[i].student, "pickup_ready",
                                threads[i].order))
    /\ threads' = [threads EXCEPT ![i].pc = "done"]
    /\ UNCHANGED <<links, confirmReply, lastResponse, today, page, inflight, paidTransitions, codeWrites>>

\* ------------------------------ GET /order_display/<order_id>/<code>
NoPage       == [http |-> 0, status_message |-> "", items |-> <<>>]
NotFoundPage == [http |-> 404, status_message |-> "", items |-> <<>>]
\* an exception in the view: the framework answers 500
ErrorPage    == [http |-> 500, status_message |-> "", items |-> <<>>]

\* the status line of the ticket
status_message(status) ==
    CASE status = "paid"                     -> "READY FOR PICKUP"
      [] status = "delivered"                -> "COLLECTED"
      [] status \in {"cancelled", "expired"} -> status
      [] OTHER                               -> "PROCESSING"

\* The codes a request can carry: the URL segment is never empty.
PageCodes == {o * CODE_SHIFT + m : o \in OrderIds, m \in ClockReadings}
PageOrderIds == OrderIds \cup {MaxOrderId + 1}

render_ticket(d, order_id, code) ==
    LET order_details == get_order_details(d, order_id)
    IN  IF order_details = NoOrder \/ order_details.pickup_code # code
        THEN NotFoundPage
        \* order_details.get('service_type', 'N/A').replace(...) on None
        ELSE IF order_details.service_type = ""
        THEN ErrorPage
        ELSE [http |-> 200,
              status_message |-> status_message(order_details.status),
              items |-> order_details.items]

order_display(order_id, code) ==
    /\ page' = render_ticket(DB, order_id, code)
    /\ UNCHANGED <<menu, orders, seq, users, links, confirmReply, threads,
                   lastResponse, today, inflight, paidTransitions, codeWrites>>

\* --------------------------------------------- the daily archive and reset
PastDayOrders(d, day) ==
    {i \in OrderIds : d.orders[i] # NoOrder /\ d.orders[i].created_at < day}

delete_all_orders_up_to_date(d, day) ==
    LET gone == PastDayOrders(d, day)
    IN  [d EXCEPT !.orders = [i \in OrderIds |->
                                 IF i \in gone THEN NoOrder ELSE d.orders[i]],
                  !.seq = IF gone # {} THEN 0 ELSE d.seq]

\* session_state != 'initial' AND NOT LIKE 'pickup_%' AND NOT LIKE 'waiting_%'
SessionIsCleared(state) ==
    state \notin {"initial", "pickup_ready", "waiting_for_payment"}

clear_active_sessions_after_reset(d) ==
    [d EXCEPT !.users = [c \in DOMAIN d.users |->
        IF SessionIsCleared(d.users[c].session_state)
        THEN [d.users[c] EXCEPT !.session_state = "initial",
                                !.current_order_id = NULL]
        ELSE d.users[c]]]

\* archive_and_reset_daily_orders deleting although the archive was not saved
archive_and_reset_without_archive(d, day, saved) ==
    IF PastDayOrders(d, day) = {}
    THEN d
    ELSE clear_active_sessions_after_reset(delete_all_orders_up_to_date(d, day))

archive_and_reset_daily_orders(d, day, saved) ==
    IF PastDayOrders(d, day) = {} \/ ~saved
    THEN d
    ELSE clear_active_sessions_after_reset(delete_all_orders_up_to_date(d, day))

ArchiveAndReset(saved) ==
    /\ Commit(archive_and_reset_daily_orders(DB, today, saved))
    /\ Quiet

Midnight ==
    /\ today < MaxDay
    /\ today' = today + 1
    /\ UNCHANGED <<menu, orders, seq, users, links, confirmReply, threads,
                   lastResponse, page, inflight,
                   paidTransitions, codeWrites>>

\* ------------------------------------------------------------ the system
NewUser == [phone_number |-> NoPhone, session_state |-> "initial",
            current_order_id |-> NULL]

Init ==
    /\ menu = [i \in ItemIds |->
                 [price |-> IF i = 1 THEN SAMOSA_PRICE ELSE TEA_PRICE,
                  available |-> TRUE]]
    /\ orders = [i \in OrderIds |-> NoOrder]
    /\ seq = 0
    /\ users = [c \in Chats |-> NewUser]
    /\ links = <<>>
    /\ confirmReply = NoReply
    /\ threads = <<>>
    /\ lastResponse = 0
    /\ today = 1
    /\ page = NoPage
    /\ inflight = <<>>
    /\ paidTransitions = [i \in OrderIds |-> 0]
    /\ codeWrites = [i \in OrderIds |-> 0]

\* Telegram events of the chats in C answered while is_bot_available_now()
\* is in A, with texts T, items I, button quantities Q, service types S and
\* gateway outcomes G.
Starts(C, A)      == \E c \in C, a \in A : TapMenuStart(c, a)
Messages(C, T, A) == \E c \in C, t \in T, a \in A : Message(c, t, a)
Cancels(C, A)     == \E c \in C, a \in A : TapCancelOrder(c, a)
Confirms(C, G, A) == \E c \in C, o \in G, a \in A : TapConfirmPay(c, o, a)
Deliveries(U, A)  == \E u \in U, o \in OrderIds, a \in A : TapDelivered(u, o, a)
CartTaps(C, I, Q, A) ==
    \/ \E c \in C, i \in I, a \in A : TapItem(c, i, a)
    \/ \E c \in C, i \in I, q \in Q, a \in A : TapQuantity(c, i, q, a)
    \/ \E c \in C, i \in I, a \in A : TapTypeQuantity(c, i, a)
ConfirmSteps(C, G, A) ==
    \/ \E c \in C, a \in A : ConfirmPayRead(c, a)
    \/ \E k \in 1..MaxInflight, g \in G : ConfirmPayWrite(k, g)
AddSteps(C, I, Q, A) ==
    \/ \E c \in C, i \in I, q \in Q, a \in A : AddItemRead(c, i, q, a)
    \/ \E k \in 1..MaxInflight : AddItemWrite(k)
PhoneSteps(C, T, A) ==
    \/ \E c \in C, t \in T, a \in A : StorePhoneSelect(c, t, a)
    \/ \E k \in 1..MaxInflight : StorePhoneReplace(k)
    \/ \E k \in 1..MaxInflight : StorePhoneResume(k)
Tickets(O, K) == \E o \in O, k \in K : order_display(o, k)
ServiceTaps(C, S, A) == \E c \in C, s \in S, a \in A : TapService(c, s, a)
CheckoutTaps(C, S, A) ==
    \/ \E c \in C, a \in A : TapCheckout(c, a)
    \/ ServiceTaps(C, S, A)
MenuEdits(I, P, D) ==
    \/ \E i \in I, p \in P : AdminUpdatePrice(i, p)
    \/ \E i \in D : AdminDeleteItem(i)
Webhooks(Sg, E, N) ==
    \E sg \in Sg, e \in E, l \in 0..MaxLinks, n \in N : razorpay_webhook(sg, e, l, n)
PaymentWrites(M, Gen) ==
    \/ \E i \in ThreadIds : PayRead(i)
    \/ \E i \in ThreadIds : PayMarkPaid(i)
    \/ \E i \in ThreadIds, m \in M, g \in Gen : PayWriteCode(i, m, g)
PaymentThreads(M, Gen) ==
    \/ PaymentWrites(M, Gen)
    \/ \E i \in ThreadIds : PaySetSession(i)
Daily ==
    \/ \E sv \in BOOLEAN : ArchiveAndReset(sv)
    \/ Midnight

\* Payment reconciliation: one customer orders, chooses the service type,
\* confirms, cancels and is paid for, the gateway replays its events.
Next ==
    \/ Starts({"c1"}, {TRUE})
    \/ Messages({"c1"}, {"987654", "cancel order"}, {TRUE})
    \/ ServiceTaps({"c1"}, {"parcel"}, {TRUE})
    \/ Cancels({"c1"}, {TRUE})
    \/ Confirms({"c1"}, {"created", "failed"}, {TRUE})
    \/ Webhooks({TRUE}, {"payment.captured"}, {"ok"})
    \/ PaymentThreads(ClockReadings, {TRUE})

Spec == Init /\ [][Next]_vars

\* The days pass: two customers, the daily archive and reset, one payment.
\* No service type is chosen here, so a payment thread ends after its code
\* write and never reaches its session write.
NextDays ==
    \/ Starts(Customers, {TRUE})
    \/ Messages(Customers, {"987654"}, {TRUE})
    \/ Confirms({"c1"}, {"created"}, {TRUE})
    \/ Webhooks({TRUE}, {"payment.captured"}, {"ok"})
    \/ PaymentWrites({0}, {TRUE})
    \/ Daily

SpecDays == Init /\ [][NextDays]_vars

\* The webhook endpoint under every kind of request.
NextWebhook ==
    \/ Starts({"c1"}, {TRUE})
    \/ Messages({"c1"}, {"987654"}, {TRUE})
    \/ ServiceTaps({"c1"}, {"parcel"}, {TRUE})
    \/ Confirms({"c1"}, {"created"}, {TRUE})
    \/ Webhooks(BOOLEAN, EventTypes, NotesKinds)
    \/ PaymentThreads({0}, BOOLEAN)

SpecWebhook == Init /\ [][NextWebhook]_vars

\* One customer's way to the payment link: cart, service type, phone number,
\* confirm, cancel.
NextFlow ==
    \/ Starts({"c1"}, {TRUE})
    \/ Messages({"c1"}, {"cancel order", "987654", "menu", "12ab", "101"}, {TRUE})
    \/ Cancels({"c1"}, {TRUE})
    \/ CartTaps({"c1"}, {1}, {1}, {TRUE})
    \/ CheckoutTaps({"c1"}, {"parcel"}, {TRUE})
    \/ Confirms({"c1"}, GatewayOutcomes, {TRUE})

SpecFlow == Init /\ [][NextFlow]_vars

\* One customer's cart while the admin edits the menu.
NextCart ==
    \/ Starts({"c1"}, {TRUE})
    \/ Messages({"c1"}, Texts \ {"987654", "status"}, {TRUE})
    \/ Cancels({"c1"}, {TRUE})
    \/ CartTaps({"c1"}, ItemIds, ButtonQuantities, {TRUE})
    \/ CheckoutTaps({"c1"}, {"parcel"}, {TRUE})
    \/ MenuEdits({1}, NewPrices, {2})

SpecCart == Init /\ [][NextCart]_vars

\* Who moves a session: one customer's messages and taps (all but the
\* quantity button, so carts stay empty), the admin's hand-over button for
\* the first order, and one gateway event with its payment thread.
NextSession ==
    \/ Starts({"c1"}, {TRUE})
    \/ Messages({"c1"}, {"987654", "cancel order", "menu", "12ab"}, {TRUE})
    \/ Cancels({"c1"}, {TRUE})
    \/ TapItem("c1", 1, TRUE)
    \/ TapTypeQuantity("c1", 1, TRUE)
    \/ CheckoutTaps({"c1"}, {"parcel"}, {TRUE})
    \/ Confirms({"c1"}, {"created", "failed"}, {TRUE})
    \/ \E u \in ADMIN_CHAT_IDS : TapDelivered(u, 1, TRUE)
    \/ /\ threads = <<>>
       /\ Webhooks(BOOLEAN, {"payment.captured", "payment.failed"}, {"ok"})
    \/ PaymentThreads({0}, {TRUE})

SpecSession == Init /\ [][NextSession]_vars

\* Adds to the cart of every kind: offered and removed items, an id the menu
\* does not know, and the quantities a callback can carry.
NextAdd ==
    \/ Starts({"c1"}, {TRUE})
    \/ Cancels({"c1"}, {TRUE})
    \/ CartTaps({"c1"}, ItemIds, CallbackQuantities, {TRUE})
    \/ \E q \in ButtonQuantities : TapQuantity("c1", UnknownItem, q, TRUE)
    \/ MenuEdits({1}, NewPrices, {2})

SpecAdd == Init /\ [][NextAdd]_vars

\* The counter: one customer orders and pays; the 'delivered' callback arrives
\* from the admin's chat and from customers' chats.
NextCounter ==
    \/ Starts({"c1"}, {TRUE})
    \/ Messages({"c1"}, {"987654"}, {TRUE})
    \/ ServiceTaps({"c1"}, {"parcel"}, {TRUE})
    \/ Confirms({"c1"}, {"created"}, {TRUE})
    \/ Deliveries(Chats, {TRUE})
    \/ Webhooks({TRUE}, {"payment.captured"}, {"ok"})
    \/ PaymentThreads({0}, {TRUE})

SpecCounter == Init /\ [][NextCounter]_vars

\* The pickup page: orders with and without a service type are paid, the
\* ticket generation succeeds or fails, and the page is asked for every
\* order id with every code.  Carts stay empty.
NextTicket ==
    \/ Starts({"c1"}, {TRUE})
    \/ Messages({"c1"}, {"987654"}, {TRUE})
    \/ ServiceTaps({"c1"}, {"parcel"}, {TRUE})
    \/ Confirms({"c1"}, {"created"}, {TRUE})
    \/ Webhooks({TRUE}, {"payment.captured"}, {"ok"})
    \/ PaymentThreads({0}, BOOLEAN)
    \/ Tickets(PageOrderIds, PageCodes)

SpecTicket == Init /\ [][NextTicket]_vars

\* A double tap on 'confirm and pay': the handler runs in two steps, so
\* that two of them overlap.
NextConfirmRace ==
    \/ Starts({"c1"}, {TRUE})
    \/ Messages({"c1"}, {"987654"}, {TRUE})
    \/ Cancels({"c1"}, {TRUE})
    \/ ConfirmSteps({"c1"}, GatewayOutcomes, {TRUE})

SpecConfirmRace == Init /\ [][NextConfirmRace]_vars

\* A double tap on a quantity button: the handler runs in two steps.
NextAddRace ==
    \/ Starts({"c1"}, {TRUE})
    \/ Cancels({"c1"}, {TRUE})
    \/ AddSteps({"c1"}, ItemIds, {1}, {TRUE})

SpecAddRace == Init /\ [][NextAddRace]_vars

\* The webhook's threads keep running: a started handle_successful_payment
\* thread is scheduled until it ends, whether or not the ticket generation
\* succeeds.  Customers' and the gateway's events are not forced.
SpecWebhookFair ==
    /\ Init
    /\ [][NextWebhook]_vars
    /\ WF_vars(PaymentThreads({0}, BOOLEAN))

\* A phone number typed while another event of the same customer is handled:
\* the cancel button of the phone prompt, a tap on 'Menu', a second message.
NextPhoneRace ==
    \/ Starts({"c1"}, {TRUE})
    \/ ServiceTaps({"c1"}, {"parcel"}, {TRUE})
    \/ Cancels({"c1"}, {TRUE})
    \/ PhoneSteps({"c1"}, {"987654", "12ab"}, {TRUE})

SpecPhoneRace == Init /\ [][NextPhoneRace]_vars

\* Operating hours: the customer's events (all but the cart's, so carts stay
\* empty) arrive inside and outside the window; the admin's and a
\* customer's 'delivered' callback for the first order, and one gateway
\* event with its payment thread.
NextHours ==
    \/ Starts({"c1"}, BOOLEAN)
    \/ Messages({"c1"}, {"987654", "cancel order"}, BOOLEAN)
    \/ Cancels({"c1"}, BOOLEAN)
    \/ CheckoutTaps({"c1"}, {"parcel"}, BOOLEAN)
    \/ Confirms({"c1"}, {"created"}, BOOLEAN)
    \/ \E u \in Chats, a \in BOOLEAN : TapDelivered(u, 1, a)
    \/ (threads = <<>> /\ Webhooks({TRUE}, {"payment.captured"}, {"ok"}))
    \/ PaymentThreads({0}, {TRUE})

SpecHours == Init /\ [][NextHours]_vars

\* =================================================================== claims
\* The step of thread i that runs update_order_status(order, 'paid').
IsMarkPaidStep(i) == threads[i].pc = "paid" /\ threads'[i].pc = "code"

DeliveriesOf(o) == {i \in ThreadIds : threads[i].order = o}

FirstDeliveryOf(o) == CHOOSE i \in DeliveriesOf(o) : \A k \in DeliveriesOf(o) : i <= k

\* C1: when the deliveries of the payment-completed event of an order that
\* was PaymentPending at the first delivery have all been handled, the order
\* has moved to Paid exactly once, its pickup code has been written exactly
\* once, and every delivery was answered with HTTP 200.
C1_ReplayAppliesOnce ==
    \A o \in OrderIds :
        (/\ DeliveriesOf(o) # {}
         /\ threads[FirstDeliveryOf(o)].found = "payment_pending"
         /\ \A i \in DeliveriesOf(o) : threads[i].pc = "done")
        => /\ paidTransitions[o] = 1
           /\ codeWrites[o] = 1
           /\ \A i \in DeliveriesOf(o) : threads[i].ack = 200

\* C2: a payment confirmation applied to an order that is already Paid,
\* Delivered or Cancelled changes neither the order nor any session; a
\* Cancelled order is not moved to Paid.
C2_MarkPaidOnSettledOrderIsNoOp ==
    [][\A i \in ThreadIds :
          (/\ IsMarkPaidStep(i)
           /\ get_order_details(DB, threads[i].order).status
                  \in {"paid", "delivered", "cancelled"})
          => /\ orders' = orders
             /\ users' = users]_vars

\* C3: the order a payment-completed event marks Paid is the order its payment
\* link was created for: it belongs to the customer the link names and it
\* stores that link's reference; no other order changes in that step.
C3_PaymentReachesItsOwnOrder ==
    [][\A i \in ThreadIds :
          (IsMarkPaidStep(i) /\ orders' # orders)
          => LET o == threads[i].order
             IN  /\ orders[o].student_phone = links[threads[i].link].chat
                 /\ orders[o].razorpay_order_id = threads[i].link
                 /\ \A k \in OrderIds \ {o} : orders'[k] = orders[k]]_vars

\* C4: a confirm on an order that stores a payment link reference and URL
\* sends that same link without calling the gateway and leaves the stored
\* reference and URL as they are; a link is created at the gateway only for
\* an order that stores none.
C4_SecondConfirmReusesLink ==
    [][\A c \in Customers, g \in GatewayOutcomes :
          TapConfirmPay(c, g, TRUE)
          => LET cur   == users[c].current_order_id
                 order == get_order_details(DB, cur)
             IN  /\ (order.razorpay_order_id # NULL /\ order.payment_link # NULL)
                    => /\ links' = links
                       /\ confirmReply' = [link |-> order.payment_link,
                                           gateway |-> FALSE]
                       /\ orders'[cur].razorpay_order_id = order.razorpay_order_id
                       /\ orders'[cur].payment_link = order.payment_link
                 /\ links' # links
                    => /\ order.razorpay_order_id = NULL
                       /\ order.payment_link = NULL]_vars

\* A second confirm was answered, without the gateway, with the one link the
\* gateway holds for a non-empty order.
C4_Witness ==
    /\ Len(links) = 1
    /\ confirmReply = [link |-> 1, gateway |-> FALSE]
    /\ \E o \in OrderIds :
          /\ orders[o].razorpay_order_id = 1
          /\ orders[o].payment_link = 1
          /\ orders[o].total_amount > 0

RECURSIVE SumLines(_)
SumLines(items) ==
    IF items = <<>> THEN 0
    ELSE items[1].price * items[1].qty + SumLines(Tail(items))

\* C5: in every reachable state each order's total_amount is the sum over its
\* lines of unit price times quantity; a line is added with the menu price of
\* that moment, and the lines already there stay as they are.
C5_TotalIsSumOfLines ==
    /\ [](\A o \in OrderIds :
             orders[o] # NoOrder => orders[o].total_amount = SumLines(orders[o].items))
    /\ [][\A o \in OrderIds :
             (orders[o] # NoOrder /\ orders'[o].items # orders[o].items)
             => LET n == Len(orders[o].items)
                IN  /\ Len(orders'[o].items) = n + 1
                    /\ SubSeq(orders'[o].items, 1, n) = orders[o].items
                    /\ orders'[o].items[n + 1].price
                           = menu[orders'[o].items[n + 1].id].price]_vars

\* An order with a line at the first price, a line of two at the changed
\* price, and the total of both.
C5_Witness ==
    \E o \in OrderIds :
        /\ Len(orders[o].items) = 2
        /\ orders[o].items[1] = [id |-> 1, price |-> SAMOSA_PRICE, qty |-> 1]
        /\ orders[o].items[2].id = 1
        /\ orders[o].items[2].price \in NewPrices
        /\ orders[o].items[2].qty = 2
        /\ orders[o].total_amount = SAMOSA_PRICE + 2 * orders[o].items[2].price

\* C6: a cancel from the owner of an order that has reached Paid, and is Paid
\* or Delivered, leaves the order's status as it is.
C6_CancelRejectedOncePaid ==
    [][\A c \in Customers :
          LET cur   == users[c].current_order_id
              order == get_order_details(DB, cur)
          IN  (/\ TapCancelOrder(c, TRUE)
               /\ order.status \in {"paid", "delivered"}
               /\ paidTransitions[cur] >= 1
               /\ order.student_phone = c)
              => orders'[cur].status = order.status]_vars

C8_BadSignatureRejected ==
    [][\A e \in EventTypes, l \in 0..MaxLinks, n \in NotesKinds :
          razorpay_webhook(FALSE, e, l, n)
          => /\ lastResponse' = 400
             /\ orders' = orders
             /\ users' = users
             /\ threads' = threads]_vars

\* An unverified webhook was answered while an order waits for its payment.
C8_Witness ==
    /\ lastResponse = 400
    /\ threads = <<>>
    /\ \E o \in OrderIds : orders[o].status = "payment_pending"

\* C9: a verified payment-completed event that resolves to no order (the
\* gateway order unknown, its notes missing or malformed, or the order it
\* names absent) is answered with 200 and changes no order and no session.
C9_UnresolvableIsAcknowledged ==
    [][\A l \in 0..MaxLinks, n \in NotesKinds :
          (/\ razorpay_webhook(TRUE, "payment.captured", l, n)
           /\ \/ l = NULL
              \/ n # "ok"
              \/ ~Exists(DB, links[l].order))
          => /\ lastResponse' = 200
             /\ orders' = orders
             /\ users' = users]_vars

\* C10: a verified webhook of another event type than payment.captured is
\* answered with 200, changes no order and no session and starts no payment
\* handling.
C10_OtherEventsAcknowledged ==
    [][\A e \in EventTypes \ {"payment.captured", "unparsable"},
          l \in 0..MaxLinks, n \in NotesKinds :
          razorpay_webhook(TRUE, e, l, n)
          => /\ lastResponse' = 200
             /\ orders' = orders
             /\ users' = users
             /\ threads' = threads]_vars

\* A verified event was answered with 200 and no payment handling began,
\* while an order waits for its payment.
C10_Witness ==
    /\ lastResponse = 200
    /\ threads = <<>>
    /\ \E o \in OrderIds : orders[o].status = "payment_pending"

\* C11: in every reachable state, a session whose state is not Initial has a
\* non-null current_order_id.
C11_ActiveSessionHasOrder ==
    \A c \in Customers :
        users[c].session_state # "initial" => users[c].current_order_id # NULL

\* C12: a session enters PickupReady only as the effect of a verified
\* payment-completed gateway event: the step that sets it is the last step
\* of a payment thread for that customer, and a payment thread is started
\* only by a signed payment.captured webhook; no message and no tap of a
\* customer or of the operator sets it.
C12_PickupReadyOnlyByPayment ==
    [][/\ \A c \in Chats :
             (/\ users[c].session_state # "pickup_ready"
              /\ users'[c].session_state = "pickup_ready")
             => \E i \in ThreadIds :
                   /\ threads[i].pc = "session"
                   /\ threads'[i].pc = "done"
                   /\ threads[i].student = c
       /\ Len(threads') > Len(threads)
             => \E l \in 1..MaxLinks, n \in NotesKinds :
                   razorpay_webhook(TRUE, "payment.captured", l, n)]_vars

\* A customer's session is PickupReady on a paid order.
C12_Witness ==
    \E c \in Customers :
        /\ users[c].session_state = "pickup_ready"
        /\ users[c].current_order_id # NULL
        /\ orders[users[c].current_order_id].status = "paid"

\* C13: while the session is AwaitingTypedQuantity(item), a typed input that
\* is not an integer in 1..100 (non-numeric, zero or negative, above 100)
\* leaves the session state, the order's items and its total unchanged.
C13_BadTypedQuantityChangesNothing ==
    [][\A c \in Customers, t \in Texts :
          (/\ IsTypedQuantityState(users[c].session_state)
           /\ Exists(DB, users[c].current_order_id)
           /\ ParseInt(t) \notin 1..MAX_TYPED_QTY
           /\ Message(c, t, TRUE))
          => /\ users'[c].session_state = users[c].session_state
             /\ \A o \in OrderIds :
                   /\ orders'[o].items = orders[o].items
                   /\ orders'[o].total_amount = orders[o].total_amount]_vars

\* The texts that the phone prompt rejects: neither 6 to 15 digits nor the
\* cancel command.
InvalidPhoneTexts == {"menu", "status", "12ab", "0", "2", "101"}

\* C14: while the session is AwaitingPhoneNumber, a text that is not a phone
\* number leaves the session in AwaitingPhoneNumber with the same order,
\* stores no phone number and changes no order.
C14_InvalidPhoneChangesNothing ==
    [][\A c \in Customers, t \in InvalidPhoneTexts :
          (/\ users[c].session_state = "awaiting_phone_number"
           /\ Message(c, t, TRUE))
          => /\ users'[c].session_state = "awaiting_phone_number"
             /\ users'[c].current_order_id = users[c].current_order_id
             /\ users'[c].phone_number = users[c].phone_number
             /\ orders' = orders]_vars

\* A customer with an order in the cart is asked for the phone number and
\* none is stored yet.
C14_Witness ==
    \E c \in Customers :
        /\ users[c].session_state = "awaiting_phone_number"
        /\ users[c].phone_number = NoPhone
        /\ Exists(DB, users[c].current_order_id)
        /\ orders[users[c].current_order_id].status = "pending"
        /\ orders[users[c].current_order_id].items # <<>>

\* C15: when the creation of a payment link fails (the gateway rejects the
\* request, the connection fails, the response carries no link), the order
\* is not moved to PaymentPending and stores no link reference, no link
\* exists at the gateway, and the session is reset to Initial, from where
\* the customer can start again.
C15_FailedLinkLeavesOrderUnpaid ==
    [][\A c \in Customers, g \in GatewayOutcomes \ {"created"} :
          LET cur == users[c].current_order_id
          IN  (/\ Exists(DB, cur)
               /\ users[c].phone_number # NoPhone
               /\ orders[cur].razorpay_order_id = NULL
               /\ TapConfirmPay(c, g, TRUE))
              => /\ orders' = orders
                 /\ links' = links
                 /\ users'[c].session_state = "initial"
                 /\ users'[c].current_order_id = NULL]_vars

\* The gateway gave no link for a customer's order with items: the order is
\* still Pending without a link reference and its owner is back in Initial.
C15_Witness ==
    /\ confirmReply = [link |-> NULL, gateway |-> TRUE]
    /\ \E c \in Customers, o \in OrderIds :
          /\ users[c].session_state = "initial"
          /\ users[c].phone_number # NoPhone
          /\ orders[o].student_phone = c
          /\ orders[o].status = "pending"
          /\ orders[o].items # <<>>
          /\ orders[o].razorpay_order_id = NULL
          /\ orders[o].payment_link = NULL

\* C16: every order that reaches Paid is assigned a daily token, exactly
\* once; the tokens of one day are distinct and increase in the order in
\* which the payments are applied, and the first token of the next day is 1.
\* Stated here in its first part: an order that has been marked Paid has a
\* daily token.
C16_PaidOrderHasDailyToken ==
    \A o \in OrderIds :
        (orders[o] # NoOrder /\ paidTransitions[o] >= 1)
        => daily_token(orders[o]) # NULL

\* C17: an order that is Paid or Delivered has a non-null pickup code, an
\* order that was never Paid has none, and the code is written together
\* with the transition to Paid and at no other time.  Stated here for the
\* states in which no payment thread stands between its status write and
\* its code write: a Paid or Delivered order has a pickup code.
C17_PaidOrderHasPickupCode ==
    \A o \in OrderIds :
        (/\ orders[o].status \in {"paid", "delivered"}
         /\ \A i \in ThreadIds : threads[i].order = o => threads[i].pc # "code")
        => orders[o].pickup_code # NULL

\* C18: the operator's 'delivered' action changes an order's status only
\* when the order is Paid; on an order that is Pending, PaymentPending,
\* Cancelled, Expired or does not exist, it changes nothing.
C18_DeliveredOnlyFromPaid ==
    [][\A u \in Chats, o \in OrderIds :
          (/\ TapDelivered(u, o, TRUE)
           /\ orders[o].status # "paid")
          => orders' = orders]_vars

\* C19: a change of a menu item's price and the removal of a menu item leave
\* the item lines and the total_amount of every existing order unchanged.
C19_MenuEditsKeepOrders ==
    [][\A i \in ItemIds :
          (AdminDeleteItem(i) \/ \E p \in NewPrices : AdminUpdatePrice(i, p))
          => \A o \in OrderIds :
                /\ orders'[o].items = orders[o].items
                /\ orders'[o].total_amount = orders[o].total_amount]_vars

\* An order still holds the first item at the price it was added at and the
\* second item, after the first was repriced and the second removed.
C19_Witness ==
    /\ menu[1].price \in NewPrices
    /\ ~menu[2].available
    /\ \E o \in OrderIds :
          /\ Len(orders[o].items) = 2
          /\ orders[o].items[1] = [id |-> 1, price |-> SAMOSA_PRICE, qty |-> 1]
          /\ orders[o].items[2] = [id |-> 2, price |-> TEA_PRICE, qty |-> 1]
          /\ orders[o].total_amount = SAMOSA_PRICE + TEA_PRICE

\* C20: an add of an item that is not available (unknown to the menu, or
\* removed from it) or of a quantity <= 0 is rejected: the items and the
\* total of every order are unchanged.
C20_BadAddIsRejected ==
    [][\A c \in Customers, i \in ItemIds \cup {UnknownItem},
          q \in CallbackQuantities :
          (/\ \/ i \notin DOMAIN menu
              \/ ~menu[i].available
              \/ q <= 0
           /\ TapQuantity(c, i, q, TRUE))
          => \A o \in OrderIds :
                orders[o] # NoOrder
                => /\ orders'[o].items = orders[o].items
                   /\ orders'[o].total_amount = orders[o].total_amount]_vars

\* After the second item was removed from the menu, a customer is back at
\* the menu with an order that holds one line of the first item.
C20_Witness ==
    /\ ~menu[2].available
    /\ \E c \in Customers :
          /\ users[c].session_state = "ordering_item"
          /\ Exists(DB, users[c].current_order_id)
          /\ orders[users[c].current_order_id].status = "pending"
          /\ Len(orders[users[c].current_order_id].items) = 1
          /\ orders[users[c].current_order_id].items[1].id = 1

\* C21: add_item changes an order's items and total only while the order is
\* Pending; on an order that is PaymentPending, Paid, Delivered or Cancelled
\* it leaves items and total_amount unchanged.
C21_AddOnlyWhilePending ==
    [][\A c \in Customers, i \in ItemIds, q \in ButtonQuantities :
          LET cur == users[c].current_order_id
          IN  (/\ Exists(DB, cur)
               /\ orders[cur].status # "pending"
               /\ TapQuantity(c, i, q, TRUE))
              => /\ orders'[cur].items = orders[cur].items
                 /\ orders'[cur].total_amount = orders[cur].total_amount]_vars

\* C22: a confirm sets an order's status to PaymentPending only when the
\* order is Pending or already PaymentPending; a confirm handled when the
\* order is Paid, Delivered or Cancelled leaves its status unchanged.
C22_ConfirmOnlyFromPending ==
    [][\A c \in Customers, g \in GatewayOutcomes :
          LET cur == users[c].current_order_id
          IN  (/\ Exists(DB, cur)
               /\ orders[cur].status \in {"paid", "delivered", "cancelled"}
               /\ TapConfirmPay(c, g, TRUE))
              => orders'[cur].status = orders[cur].status]_vars

\* C23: the pickup verification page is a pure read: a request for (order
\* id, code) returns the order's status and items when the code equals the
\* order's stored pickup code, returns not-found when the order does not
\* exist, has no pickup code or the code differs, and in every case changes
\* no order and no session.
C23_TicketPageIsPureRead ==
    [][\A o \in PageOrderIds, k \in PageCodes :
          order_display(o, k)
          => /\ orders' = orders
             /\ users' = users
             /\ IF o \in OrderIds /\ orders[o] # NoOrder /\ orders[o].pickup_code = k
                THEN /\ page'.http = 200
                     /\ page'.status_message = status_message(orders[o].status)
                     /\ page'.items = orders[o].items
                ELSE page'.http = 404]_vars


\* C24: when generating the customer ticket fails after the order was marked
\* Paid, the order stays Paid and keeps its pickup code, and the failure
\* changes the status of no order.
C24_FailedTicketKeepsPaidOrder ==
    [][\A i \in 1..MaxThreads, m \in ClockReadings :
          LET o == threads[i].order
          IN  (/\ i \in DOMAIN threads
               /\ threads[i].pc = "code"
               /\ Exists(DB, o)
               /\ orders[o].status = "paid"
               /\ PayWriteCode(i, m, FALSE))
              => /\ \A x \in OrderIds : orders'[x].status = orders[x].status
                 /\ orders'[o].pickup_code = orders[o].pickup_code]_vars


\* C25: when two confirms of one order are handled concurrently, the gateway
\* is asked for at most one payment link for that order, and once no confirm
\* is in flight the order holds that link's reference and URL.
C25_OneLinkPerOrder ==
    \A o \in OrderIds :
        LET asked == {l \in DOMAIN links : links[l].order = o}
        IN  /\ Cardinality(asked) <= 1
            /\ (inflight = <<>> /\ asked # {} /\ Exists(DB, o))
               => /\ orders[o].razorpay_order_id \in asked
                  /\ orders[o].payment_link = orders[o].razorpay_order_id


\* C27: when two add_item operations on the same Pending order are handled
\* concurrently, none is lost: each completed add leaves the order with the
\* lines it had plus the new line, and with its total plus the new amount.
C27_ConcurrentAddsAreKept ==
    [][\A k \in 1..MaxInflight :
          (/\ k \in DOMAIN inflight
           /\ inflight[k].handler = "add_item"
           /\ Exists(DB, inflight[k].cur)
           /\ orders[inflight[k].cur].status = "pending"
           /\ AddItemWrite(k))
          => LET cur  == inflight[k].cur
                 line == inflight[k].line
             IN  /\ orders'[cur].items = Append(orders[cur].items, line)
                 /\ orders'[cur].total_amount =
                        orders[cur].total_amount + line.price * line.qty]_vars


\* C26: when a customer cancel and the payment confirmation of the same
\* PaymentPending order run concurrently, the confirmation ends in one of
\* two outcomes: the order is Cancelled without a pickup code and the
\* session is Initial, or the order is Paid with a pickup code and the
\* session is PickupReady; never a mix of the two.
C26_CancelAndPaymentNeverMix ==
    [][\A i \in ThreadIds :
          LET o == threads[i].order
              c == threads[i].student
          IN  (/\ i \in DOMAIN threads
               /\ threads[i].pc = "session"
               /\ Exists(DB, o)
               /\ PaySetSession(i)
               /\ orders'[o].status \in {"paid", "cancelled"})
              => \/ /\ orders'[o].status = "paid"
                    /\ orders'[o].pickup_code # NULL
                    /\ get_session_state([DB EXCEPT !.users = users'], c) = "pickup_ready"
                 \/ /\ orders'[o].status = "cancelled"
                    /\ orders'[o].pickup_code = NULL
                    /\ get_session_state([DB EXCEPT !.users = users'], c) = "initial"]_vars


\* C28: choosing a service type in AwaitingServiceType records the type on
\* the current order and moves the session to AwaitingPhoneNumber when the
\* customer has no stored phone number and to ConfirmingOrder when one is
\* stored, on the same order; the stored phone number is kept, so a later
\* order skips AwaitingPhoneNumber.
C28_ServiceChoiceAsksPhoneOnce ==
    [][\A c \in Customers, s \in {"parcel"} :
          LET cur == users[c].current_order_id
          IN  (/\ users[c].session_state = "awaiting_service_type"
               /\ TapService(c, s, TRUE))
              => /\ Exists(DB, cur)
                 /\ orders'[cur].service_type = s
                 /\ users'[c].current_order_id = cur
                 /\ users'[c].phone_number = users[c].phone_number
                 /\ users'[c].session_state =
                        IF users[c].phone_number = NoPhone
                        THEN "awaiting_phone_number" ELSE "confirming_order"]_vars

\* The second order of a customer whose phone number was stored during the
\* first one is being confirmed without the phone having been asked again.
C28_Witness ==
    /\ users["c1"].session_state = "confirming_order"
    /\ users["c1"].current_order_id = 2
    /\ users["c1"].phone_number # NoPhone
    /\ orders[2].service_type = "parcel"
    /\ orders[1].status = "cancelled"
    /\ orders[1].service_type = "parcel"


\* C29: after a customer's start event the session is BrowsingMenu and its
\* current order exists, is owned by that customer and is Pending; the
\* previous current order is reused only if it exists and is Pending,
\* otherwise a new Pending order with no items and total 0 is created.
C29_StartGivesPendingOrder ==
    [][\A c \in Customers :
          TapMenuStart(c, TRUE)
          => LET cur == users[c].current_order_id
                 new == users'[c].current_order_id
             IN  /\ users'[c].session_state = "ordering_item"
                 /\ new \in OrderIds
                 /\ orders'[new] # NoOrder
                 /\ orders'[new].student_phone = c
                 /\ orders'[new].status = "pending"
                 /\ IF Exists(DB, cur) /\ orders[cur].status = "pending"
                    THEN new = cur /\ orders' = orders
                    ELSE /\ orders[new] = NoOrder
                         /\ orders'[new].items = <<>>
                         /\ orders'[new].total_amount = 0]_vars


\* C30: the payment confirmation of order X moves the owner's session to
\* PickupReady only from WaitingForPayment with current order X; when the
\* session has moved on, its state and current order are left unchanged.
C30_PickupReadyOnlyFromWaiting ==
    [][\A i \in ThreadIds :
          LET x == threads[i].order
              c == threads[i].student
          IN  (/\ i \in DOMAIN threads
               /\ threads[i].pc = "session"
               /\ ~(/\ users[c].session_state = "waiting_for_payment"
                    /\ users[c].current_order_id = x)
               /\ PaySetSession(i))
              => /\ users'[c].session_state = users[c].session_state
                 /\ users'[c].current_order_id = users[c].current_order_id]_vars


\* C31: a quantity selection received while the session is
\* AwaitingServiceType, AwaitingPhoneNumber, ConfirmingOrder,
\* WaitingForPayment or PickupReady is rejected: the order's items, its
\* total and the session state are unchanged.
C31_StaleQuantityIsRejected ==
    [][\A c \in Customers, i \in ItemIds, q \in ButtonQuantities :
          LET cur == users[c].current_order_id
          IN  (/\ users[c].session_state \in
                      {"awaiting_service_type", "awaiting_phone_number",
                       "confirming_order", "waiting_for_payment", "pickup_ready"}
               /\ Exists(DB, cur)
               /\ TapQuantity(c, i, q, TRUE))
              => /\ orders'[cur].items = orders[cur].items
                 /\ orders'[cur].total_amount = orders[cur].total_amount
                 /\ users'[c].session_state = users[c].session_state]_vars


\* C32: a 'delivered' action sent by a customer who is no operator, for any
\* order id, leaves every order unchanged.
C32_OnlyOperatorDelivers ==
    [][\A c \in Customers, o \in OrderIds :
          TapDelivered(c, o, TRUE) => orders' = orders]_vars


\* C33: under weak fairness of the payment handler, whenever a verified
\* payment-completed event for a PaymentPending order has been accepted,
\* eventually that order is Paid with a stored pickup code and its owner's
\* session is PickupReady for that order, also when the generation of the
\* pickup ticket fails.
C33_AcceptedPaymentEndsPickupReady ==
    \A i \in 1..MaxThreads :
        (i \in DOMAIN threads /\ threads[i].found = "payment_pending")
        ~> (/\ i \in DOMAIN threads
            /\ LET o == threads[i].order
                   c == threads[i].student
               IN  /\ orders[o].status = "paid"
                   /\ orders[o].pickup_code # NULL
                   /\ users[c].session_state = "pickup_ready"
                   /\ users[c].current_order_id = o)


\* C34: in every reachable state a session's non-null current_order_id
\* refers to an order that exists and is owned by that session's customer,
\* also after the daily archive deleted past-day orders and restarted the
\* order ids; no two customers' sessions point at the same order.
C34_SessionOrderExistsAndIsOwned ==
    /\ \A c \in Customers :
          LET cur == users[c].current_order_id
          IN  cur # NULL => /\ Exists(DB, cur)
                            /\ orders[cur].student_phone = c
    /\ \A c \in Customers, e \in Customers :
          (c # e /\ users[c].current_order_id # NULL)
          => users[c].current_order_id # users[e].current_order_id


\* C38: the daily archive-and-reset deletes orders, restarts the order id
\* sequence and clears sessions only after the past-day orders were written
\* to the archive; if there is nothing to archive or saving the archive
\* fails, no order is deleted, the id sequence is not reset and no session
\* is changed; orders created today are never deleted.
C38_ResetOnlyAfterArchive ==
    [][\A saved \in BOOLEAN :
          ArchiveAndReset(saved)
          => LET past == {o \in OrderIds : /\ orders[o] # NoOrder
                                           /\ orders[o].created_at < today}
             IN  /\ (past = {} \/ ~saved)
                    => (orders' = orders /\ seq' = seq /\ users' = users)
                 /\ \A o \in OrderIds \ past : orders'[o] = orders[o]
                 /\ (past # {} /\ saved)
                    => (seq' = 0 /\ \A o \in past : orders'[o] = NoOrder)]_vars

\* A reset has deleted the first order, created on an earlier day, and has
\* kept the second one, created today.
C38_Witness ==
    /\ seq = 0
    /\ orders[1] = NoOrder
    /\ orders[2] # NoOrder
    /\ orders[2].created_at = today


\* C35: in every reachable state an order that has a payment link stored
\* has a total_amount equal to the amount for which that link was created
\* at the gateway.
C35_LinkAmountIsOrderTotal ==
    \A o \in OrderIds :
        (Exists(DB, o) /\ orders[o].payment_link # NULL)
        => /\ orders[o].payment_link \in DOMAIN links
           /\ links[orders[o].payment_link].amount = orders[o].total_amount


\* C36: a payment link is requested from the gateway only when the customer
\* has a stored phone number; a confirm without one moves the session to
\* AwaitingPhoneNumber with the same current order, creates no link and
\* leaves the order's status unchanged.
C36_NoLinkWithoutPhone ==
    [][/\ links' # links
          => /\ Len(links') = Len(links) + 1
             /\ users[links'[Len(links')].chat].phone_number # NoPhone
       /\ \A c \in Customers, g \in GatewayOutcomes :
             LET cur == users[c].current_order_id
             IN  (/\ Exists(DB, cur)
                  /\ users[c].phone_number = NoPhone
                  /\ TapConfirmPay(c, g, TRUE))
                 => /\ users'[c].session_state = "awaiting_phone_number"
                    /\ users'[c].current_order_id = cur
                    /\ links' = links
                    /\ orders' = orders]_vars

\* A confirm of an order whose service type was never chosen has asked for
\* the phone number; no link exists.
C36_Witness ==
    /\ users["c1"].session_state = "awaiting_phone_number"
    /\ users["c1"].phone_number = NoPhone
    /\ users["c1"].current_order_id = 1
    /\ orders[1].service_type = ""
    /\ orders[1].status = "pending"
    /\ links = <<>>


\* C37: a payment link is never requested from the gateway for an order
\* whose item list is empty: checkout, service-type choice and confirm on
\* an order with no items ask for no link, create none and do not move the
\* order to PaymentPending.
C37_NoLinkForEmptyOrder ==
    [][\A c \in Customers :
          LET cur == users[c].current_order_id
          IN  (/\ Exists(DB, cur)
               /\ orders[cur].items = <<>>
               /\ \/ TapCheckout(c, TRUE)
                  \/ \E s \in {"parcel"} : TapService(c, s, TRUE)
                  \/ \E g \in GatewayOutcomes : TapConfirmPay(c, g, TRUE))
              => /\ links' = links
                 /\ confirmReply' = confirmReply \/ ~confirmReply'.gateway
                 /\ orders'[cur].status = orders[cur].status]_vars


\* C39: storing a customer's phone number never changes or reverts that
\* session's state or current_order_id: after update_user_phone they have
\* the values last written by set_session_state, in every interleaving with
\* a concurrent session state change.
C39_StoringPhoneKeepsSession ==
    [][\A k \in 1..MaxInflight :
          StorePhoneReplace(k)
          => LET c == inflight[k].chat
             IN  /\ users'[c].session_state = users[c].session_state
                 /\ users'[c].current_order_id = users[c].current_order_id]_vars


\* C40: while the service is outside its operating window, any message or
\* button event from a customer who is no operator leaves all sessions and
\* all orders unchanged; an operator's event is still processed.
C40_ClosedHoursChangeNothing ==
    [][/\ \A c \in Customers :
             (\/ TapMenuStart(c, FALSE)
              \/ TapCancelOrder(c, FALSE)
              \/ TapCheckout(c, FALSE)
              \/ \E t \in Texts : Message(c, t, FALSE)
              \/ \E i \in ItemIds, q \in ButtonQuantities : TapQuantity(c, i, q, FALSE)
              \/ \E s \in {"parcel"} : TapService(c, s, FALSE)
              \/ \E g \in GatewayOutcomes : TapConfirmPay(c, g, FALSE)
              \/ \E o \in OrderIds : TapDelivered(c, o, FALSE))
             => (users' = users /\ orders' = orders /\ links' = links)
       /\ \A u \in ADMIN_CHAT_IDS, o \in OrderIds :
             (Exists(DB, o) /\ TapDelivered(u, o, FALSE))
             => orders'[o].status = "delivered"]_vars

\* The customer is about to confirm a second order, where a tap outside the
\* window would act, and the admin has handed over the first order.
C40_Witness ==
    /\ users["c1"].session_state = "confirming_order"
    /\ users["c1"].current_order_id = 2
    /\ orders[2].status = "pending"
    /\ orders[1].status = "delivered"

====
